---------------------------- MODULE Spec2Model ----------------------------
(***************************************************************************)
(* Model of bazel/cc_wrapper.py: the compiler wrapper that inspects its    *)
(* argument vector, optionally rewrites linker response files, appends     *)
(* toolchain-specific flags and execs the real compiler.                   *)
(*                                                                         *)
(* Python strings are modelled as sequences of one-character strings, so   *)
(* that substring tests, prefix tests, shlex.split, str() of a list and    *)
(* the line iteration of a file are computed, not assumed.                 *)
(***************************************************************************)
EXTENDS Integers, Sequences, FiniteSets, TLC

(***************************************************************************)
(* Bounds of the model.                                                    *)
(***************************************************************************)
\* number of arguments that follow the leading arguments of a run
MaxArgs == 2
\* number of distinct random names tempfile.mkstemp can draw
MaxTmp == 2

(***************************************************************************)
(* String literals of the source.                                          *)
(***************************************************************************)
OPT_E ==
    <<"-","E">>
OPT_XCXX ==
    <<"-","x","c","+","+">>
OPT_DASH ==
    <<"-">>
OPT_V ==
    <<"-","v">>
PROBE ==
    <<OPT_E, OPT_XCXX, OPT_DASH, OPT_V>>
STATIC_LIBSTDCXX ==
    <<"-","s","t","a","t","i","c","-","l","i","b","s","t","d","c","+","+">>
STDLIB_LIBCXX ==
    <<"-","s","t","d","l","i","b","=","l","i","b","c","+","+">>
STD_CXX ==
    <<"-","s","t","d","=","c","+","+">>
LSTDCXX ==
    <<"-","l","s","t","d","c","+","+">>
LCXX ==
    <<"-","l","c","+","+">>
LSTDCXX_NL ==
    <<"-","l","s","t","d","c","+","+","\n">>
LCXX_NL ==
    <<"-","l","c","+","+","\n">>
WL_AT ==
    <<"-","W","l",",","@">>
TMP_DIR ==
    <<".","/">>
TMP_PREFIX ==
    <<"t","m","p">>
LINKER_PARAMS ==
    <<".","l","i","n","k","e","r","-","p","a","r","a","m","s">>
CLANG ==
    <<"c","l","a","n","g">>
GCC ==
    <<"g","c","c">>
GXX ==
    <<"g","+","+">>
FNO_LIMIT_DEBUG_INFO ==
    <<"-","f","n","o","-","l","i","m","i","t","-","d","e","b","u","g","-","i","n","f","o">>
WTHREAD_SAFETY ==
    <<"-","W","t","h","r","e","a","d","-","s","a","f","e","t","y">>
WGNU_CONDITIONAL ==
    <<"-","W","g","n","u","-","c","o","n","d","i","t","i","o","n","a","l","-","o","m","i","t","t","e","d","-","o","p","e","r","a","n","d">>
WNO_MAYBE_UNINITIALIZED ==
    <<"-","W","n","o","-","m","a","y","b","e","-","u","n","i","n","i","t","i","a","l","i","z","e","d">>

(***************************************************************************)
(* Inputs of a run: argument tokens, response files on disk, and the three *)
(* build-time substituted configuration strings.                           *)
(***************************************************************************)
ARG_WL_A ==
    <<"-","W","l",",","@","a">>
ARG_WL_B ==
    <<"-","W","l",",","@","b">>
ARG_WL_EMPTY ==
    <<"-","W","l",",","@">>
ARG_STD11 ==
    <<"-","s","t","d","=","c","+","+","1","1">>
ARG_STD_C ==
    <<"-","s","t","d","=","c">>
ARG_PLUSPLUS ==
    <<"+","+">>
ARG_OBJ ==
    <<"f","o","o",".","o">>
PATH_A ==
    <<"a">>
PATH_B ==
    <<"b">>
FILE_A ==
    <<"-","l","a","\n","-","l","s","t","d","c","+","+","\n","-","l","b","\n">>
FILE_B ==
    <<"-","l","s","t","d","c","+","+","\r","\n","-","l","s","t","d","c","+","+","\n","-","l","s","t","d","c","+","+">>
FLAGS_NONE ==
    <<>>
FLAGS_O2G ==
    <<" ","-","O","2"," "," ","-","g">>
FLAGS_QUOTED ==
    <<"-","D","'","a"," ","b","'">>
FLAGS_UNCLOSED ==
    <<"\"","-","O","2">>
CC_PLAIN ==
    <<"/","b","i","n","/","c","c">>
CXX_GXX ==
    <<"/","b","i","n","/","g","+","+">>
CC_GCC ==
    <<"/","b","i","n","/","g","c","c">>
CXX_CLANG ==
    <<"/","b","i","n","/","c","l","a","n","g","+","+">>
CC_CLANG_GCC ==
    <<"/","c","l","a","n","g","/","g","c","c">>
CXX_PLAIN ==
    <<"/","b","i","n","/","c","+","+">>

\* tokens an argument vector is drawn from
ArgPool ==
    {STATIC_LIBSTDCXX, STDLIB_LIBCXX, LSTDCXX, ARG_WL_A, ARG_WL_B,
     ARG_WL_EMPTY, ARG_STD11, ARG_STD_C, ARG_PLUSPLUS, ARG_OBJ}

\* leading arguments: none, the include-path probe, a probe cut short
Leads ==
    {<<>>, PROBE, <<OPT_E, OPT_XCXX, OPT_DASH>>}

RECURSIVE SeqsUpTo(_, _)
SeqsUpTo(S, n) ==
    IF n = 0 THEN {<<>>}
    ELSE LET shorter == SeqsUpTo(S, n - 1)
         IN  shorter \cup {Append(s, x) : s \in shorter, x \in S}

\* sys.argv[1:] of a run
ArgVectors ==
    {lead \o rest : lead \in Leads, rest \in SeqsUpTo(ArgPool, MaxArgs)}

\* values of envoy_cxxflags
CxxFlagChoices ==
    {FLAGS_NONE, STDLIB_LIBCXX, FLAGS_O2G, LSTDCXX, FLAGS_QUOTED, FLAGS_UNCLOSED}

\* values of (envoy_real_cc, envoy_real_cxx)
CompilerChoices ==
    {<<CC_PLAIN, CXX_GXX>>, <<CC_GCC, CXX_CLANG>>, <<CC_CLANG_GCC, CXX_PLAIN>>}

\* the response files on disk when the wrapper starts
InitFS ==
    (PATH_A :> FILE_A) @@ (PATH_B :> FILE_B)

(***************************************************************************)
(* Python primitives used by the source.                                   *)
(***************************************************************************)
\* x in list
Member(list, x) ==
    \E k \in 1..Len(list) : list[k] = x

\* sub in s, for two strings
Contains(s, sub) ==
    \E k \in 1..(Len(s) - Len(sub) + 1) : SubSeq(s, k, k + Len(sub) - 1) = sub

\* s.startswith(prefix)
StartsWith(s, prefix) ==
    /\ Len(s) >= Len(prefix)
    /\ SubSeq(s, 1, Len(prefix)) = prefix

\* s[n:]
DropFirst(s, n) ==
    SubSeq(s, n + 1, Len(s))

\* list[0:n]
Take(list, n) ==
    SubSeq(list, 1, IF Len(list) < n THEN Len(list) ELSE n)

RECURSIVE Concat(_)
Concat(list) ==
    IF list = <<>> THEN <<>> ELSE Head(list) \o Concat(Tail(list))

\* repr() of one character inside a str literal delimited by quote
ReprChar(ch, quote) ==
    CASE ch = "\\" -> <<"\\", "\\">>
      [] ch = "\n" -> <<"\\", "n">>
      [] ch = "\r" -> <<"\\", "r">>
      [] ch = "\t" -> <<"\\", "t">>
      [] ch = quote -> <<"\\", ch>>
      [] OTHER -> <<ch>>

\* repr() of a str: double quotes only when it holds ' and no "
ReprStr(s) ==
    LET quote == IF Member(s, "'") /\ ~Member(s, "\"") THEN "\"" ELSE "'"
    IN  <<quote>> \o Concat([k \in 1..Len(s) |-> ReprChar(s[k], quote)]) \o <<quote>>

\* str() of a list of str
RECURSIVE JoinRepr(_)
JoinRepr(list) ==
    IF list = <<>> THEN <<>>
    ELSE IF Len(list) = 1 THEN ReprStr(list[1])
    ELSE ReprStr(Head(list)) \o <<",", " ">> \o JoinRepr(Tail(list))

StrOfList(list) ==
    <<"[">> \o JoinRepr(list) \o <<"]">>

\* shlex.split(s): POSIX rules, whitespace_split, no comments.
\* state "ws" skips whitespace, "a" is inside a word, "'" and "\"" are inside
\* quotes, "esc" follows a backslash (escaped is the state to return to).
\* ok is FALSE where shlex raises ValueError (no closing quotation, no
\* escaped character).
ShlexWhitespace ==
    {" ", "\t", "\r", "\n"}

ShlexQuotes ==
    {"'", "\""}

RECURSIVE ShlexRead(_, _, _, _, _, _)
ShlexRead(s, k, state, escaped, token, out) ==
    IF k > Len(s)
    THEN CASE state = "ws" -> [ok |-> TRUE, tokens |-> out]
           [] state = "a" -> [ok |-> TRUE, tokens |-> Append(out, token)]
           [] OTHER -> [ok |-> FALSE, tokens |-> <<>>]
    ELSE LET ch == s[k] IN
         CASE state = "ws" ->
                IF ch \in ShlexWhitespace
                THEN ShlexRead(s, k + 1, "ws", escaped, <<>>, out)
                ELSE IF ch = "\\"
                THEN ShlexRead(s, k + 1, "esc", "a", <<>>, out)
                ELSE IF ch \in ShlexQuotes
                THEN ShlexRead(s, k + 1, ch, escaped, <<>>, out)
                ELSE ShlexRead(s, k + 1, "a", escaped, <<ch>>, out)
           [] state \in ShlexQuotes ->
                IF ch = state
                THEN ShlexRead(s, k + 1, "a", escaped, token, out)
                ELSE IF ch = "\\" /\ state = "\""
                THEN ShlexRead(s, k + 1, "esc", state, token, out)
                ELSE ShlexRead(s, k + 1, state, escaped, Append(token, ch), out)
           [] state = "esc" ->
                IF escaped \in ShlexQuotes /\ ch # "\\" /\ ch # escaped
                THEN ShlexRead(s, k + 1, escaped, escaped,
                               Append(Append(token, "\\"), ch), out)
                ELSE ShlexRead(s, k + 1, escaped, escaped, Append(token, ch), out)
           [] OTHER ->
                IF ch \in ShlexWhitespace
                THEN ShlexRead(s, k + 1, "ws", escaped, <<>>, Append(out, token))
                ELSE IF ch = "\\"
                THEN ShlexRead(s, k + 1, "esc", "a", token, out)
                ELSE IF ch \in ShlexQuotes
                THEN ShlexRead(s, k + 1, ch, escaped, token, out)
                ELSE ShlexRead(s, k + 1, "a", escaped, Append(token, ch), out)

ShlexSplit(s) ==
    ShlexRead(s, 1, "ws", "a", <<>>, <<>>)

\* iteration of a file opened "rb": the lines, each with its "\n" terminator,
\* the last one without when the file does not end in "\n"
RECURSIVE ReadLines(_, _)
ReadLines(content, line) ==
    IF content = <<>>
    THEN IF line = <<>> THEN <<>> ELSE <<line>>
    ELSE IF Head(content) = "\n"
    THEN <<Append(line, "\n")>> \o ReadLines(Tail(content), <<>>)
    ELSE ReadLines(Tail(content), Append(line, Head(content)))

FileLines(content) ==
    ReadLines(content, <<>>)

(***************************************************************************)
(* The decisions of main() and sanitize_flagfile().                        *)
(***************************************************************************)
\* variant: the whole argument vector compared, not its first four arguments
IsProbe_WholeVector(args) ==
    args = PROBE

\* sys.argv[1:5] == ["-E", "-xc++", "-", "-v"]
IsProbe(args) ==
    Take(args, 4) = PROBE

\* variant: -static-libstdc++ left out of the test
ChooseCompiler_StdlibOnly(args, real_cc, real_cxx) ==
    IF Member(args, STDLIB_LIBCXX) THEN real_cxx ELSE real_cc

\* the compiler main() selects for a non-probe run
ChooseCompiler(args, real_cc, real_cxx) ==
    IF Member(args, STATIC_LIBSTDCXX) \/ Member(args, STDLIB_LIBCXX)
    THEN real_cxx
    ELSE real_cc

\* variant: the arguments are always rewritten
TransformTriggered_Always(args, cxxflags) ==
    TRUE

\* variant: envoy_cxxflags left out of the test
TransformTriggered_StaticOnly(args, cxxflags) ==
    Member(args, STATIC_LIBSTDCXX)

\* whether main() rewrites the arguments
TransformTriggered(args, cxxflags) ==
    Member(args, STATIC_LIBSTDCXX) \/ Contains(cxxflags, STDLIB_LIBCXX)

\* variant: the -std=c++ test left out
PrependCxxflags_NoStdTest(args, cxxflags) ==
    cxxflags # <<>>

\* whether the rewritten list starts with the tokens of envoy_cxxflags
PrependCxxflags(args, cxxflags) ==
    cxxflags # <<>> /\ Contains(StrOfList(args), STD_CXX)

\* "-stdlib=libc++" in envoy_cxxflags
SwapToLibcxx(cxxflags) ==
    Contains(cxxflags, STDLIB_LIBCXX)

\* variant: "-lstdc++" is kept when it is not swapped
LstdcxxReplacement_Kept(cxxflags) ==
    IF SwapToLibcxx(cxxflags) THEN <<LCXX>> ELSE <<LSTDCXX>>

\* what main() appends for an argument equal to "-lstdc++"
LstdcxxReplacement(cxxflags) ==
    IF SwapToLibcxx(cxxflags) THEN <<LCXX>> ELSE <<>>

\* variant: the line is compared without its terminator
SanitizedLine_Stripped(line, cxxflags) ==
    IF line \notin {LSTDCXX, LSTDCXX_NL, LSTDCXX \o <<"\r", "\n">>} THEN line
    ELSE IF SwapToLibcxx(cxxflags) THEN LCXX_NL
    ELSE <<>>

\* what sanitize_flagfile writes to out_fd for one line of the input file
SanitizedLine(line, cxxflags) ==
    IF line # LSTDCXX_NL THEN line
    ELSE IF SwapToLibcxx(cxxflags) THEN LCXX_NL
    ELSE <<>>

\* variant: two independent tests, not if / elif
CompilerOptions_NoElif(path) ==
    (IF Contains(path, CLANG)
     THEN <<FNO_LIMIT_DEBUG_INFO, WTHREAD_SAFETY, WGNU_CONDITIONAL>>
     ELSE <<>>)
    \o (IF Contains(path, GCC) \/ Contains(path, GXX)
        THEN <<WNO_MAYBE_UNINITIALIZED>>
        ELSE <<>>)

\* the compiler-specific options main() appends
CompilerOptions(path) ==
    IF Contains(path, CLANG)
    THEN <<FNO_LIMIT_DEBUG_INFO, WTHREAD_SAFETY, WGNU_CONDITIONAL>>
    ELSE IF Contains(path, GCC) \/ Contains(path, GXX)
    THEN <<WNO_MAYBE_UNINITIALIZED>>
    ELSE <<>>

\* the name tempfile.mkstemp(dir='./', suffix=".linker-params") builds from
\* its n-th random name
TmpNameChars ==
    <<"1", "2", "3", "4", "5", "6", "7", "8", "9">>

MkstempPath(n) ==
    TMP_DIR \o TMP_PREFIX \o <<TmpNameChars[n]>> \o LINKER_PARAMS

\* variant: the descriptor is not closed when the block is left
closing_fd_Leak(fds, fd) ==
    fds

\* closing_fd: the descriptors left open when the with block is left
closing_fd(fds, fd) ==
    fds \ {fd}

(***************************************************************************)
(* State of one run of the wrapper.                                        *)
(***************************************************************************)
VARIABLES
    sys_argv,        \* sys.argv[1:]
    envoy_real_cc,   \* path of the C compiler
    envoy_real_cxx,  \* path of the C++ compiler
    envoy_cxxflags,  \* extra C++ flags, one string
    pc,              \* position of the run in main()
    compiler,        \* main's compiler, "" before it is selected
    argv,            \* main's argv, the list being built
    arg_index,       \* position of the for loop in sys.argv[1:]
    fs,              \* files on disk: path -> content
    open_fds,        \* paths of the mkstemp descriptors that are open
    open_files,      \* paths of the files open for reading
    flagfile_path,   \* path mkstemp returned for the current argument
    in_lines,        \* lines sanitize_flagfile has still to read
    execs,           \* the os.execv calls that replaced the process
    reads,           \* paths sanitize_flagfile has tried to open
    raised           \* the call whose exception ended the process, "" if none

vars ==
    <<sys_argv, envoy_real_cc, envoy_real_cxx, envoy_cxxflags, pc, compiler,
      argv, arg_index, fs, open_fds, open_files, flagfile_path, in_lines,
      execs, reads, raised>>

config ==
    <<sys_argv, envoy_real_cc, envoy_real_cxx, envoy_cxxflags>>

Init ==
    /\ sys_argv \in ArgVectors
    /\ \E c \in CompilerChoices : envoy_real_cc = c[1] /\ envoy_real_cxx = c[2]
    /\ envoy_cxxflags \in CxxFlagChoices
    /\ pc = "start"
    /\ compiler = <<>>
    /\ argv = <<>>
    /\ arg_index = 1
    /\ fs = InitFS
    /\ open_fds = {}
    /\ open_files = {}
    /\ flagfile_path = <<>>
    /\ in_lines = <<>>
    /\ execs = <<>>
    /\ reads = {}
    /\ raised = ""

\* an uncaught exception ends the process
Raise(call) ==
    /\ pc' = "fatal"
    /\ raised' = call
    /\ UNCHANGED <<config, compiler, argv, arg_index, fs, open_fds, open_files,
                   flagfile_path, in_lines, execs, reads>>

\* os.execv(path, args) replaces the process image
Execv(path, args) ==
    /\ pc' = "exec"
    /\ execs' = Append(execs, [path |-> path, args |-> args])
    /\ UNCHANGED <<config, compiler, argv, arg_index, fs, open_fds, open_files,
                   flagfile_path, in_lines, reads, raised>>

\* the for loop moves to the next argument, or ends
NextArg ==
    /\ arg_index' = arg_index + 1
    /\ pc' = IF arg_index + 1 > Len(sys_argv) THEN "options" ELSE "loop"

(***************************************************************************)
(* The steps of main().                                                    *)
(***************************************************************************)
\* line 32-33: the include-path probe execs the C++ compiler
ProbeExec ==
    /\ pc = "start"
    /\ IsProbe(sys_argv)
    /\ ShlexSplit(envoy_cxxflags).ok
    /\ Execv(envoy_real_cxx,
             <<envoy_real_cxx>> \o sys_argv \o ShlexSplit(envoy_cxxflags).tokens)

\* line 33: shlex.split raises ValueError, or os.execv raises OSError
ProbeRaise ==
    /\ pc = "start"
    /\ IsProbe(sys_argv)
    /\ Raise(IF ShlexSplit(envoy_cxxflags).ok THEN "execv" ELSE "shlex.split")

\* line 42-45
SelectCompiler ==
    /\ pc = "start"
    /\ ~IsProbe(sys_argv)
    /\ compiler' = ChooseCompiler(sys_argv, envoy_real_cc, envoy_real_cxx)
    /\ pc' = "transform"
    /\ UNCHANGED <<config, argv, arg_index, fs, open_fds, open_files,
                   flagfile_path, in_lines, execs, reads, raised>>

\* line 50-55: the rewritten list starts empty or with the cxxflags tokens
BeginTransform ==
    /\ pc = "transform"
    /\ TransformTriggered(sys_argv, envoy_cxxflags)
    /\ IF PrependCxxflags(sys_argv, envoy_cxxflags)
       THEN /\ ShlexSplit(envoy_cxxflags).ok
            /\ argv' = ShlexSplit(envoy_cxxflags).tokens
       ELSE argv' = <<>>
    /\ arg_index' = 1
    /\ pc' = IF sys_argv = <<>> THEN "options" ELSE "loop"
    /\ UNCHANGED <<config, compiler, fs, open_fds, open_files, flagfile_path,
                   in_lines, execs, reads, raised>>

\* line 53: shlex.split raises ValueError
BeginTransformRaise ==
    /\ pc = "transform"
    /\ TransformTriggered(sys_argv, envoy_cxxflags)
    /\ PrependCxxflags(sys_argv, envoy_cxxflags)
    /\ ~ShlexSplit(envoy_cxxflags).ok
    /\ Raise("shlex.split")

\* line 71-72: no rewriting, argv is a copy of the arguments
SkipTransform ==
    /\ pc = "transform"
    /\ ~TransformTriggered(sys_argv, envoy_cxxflags)
    /\ argv' = sys_argv
    /\ pc' = "options"
    /\ UNCHANGED <<config, compiler, arg_index, fs, open_fds, open_files,
                   flagfile_path, in_lines, execs, reads, raised>>

\* line 57-59: "-lstdc++" is dropped, or swapped for "-lc++"
RewriteLstdcxx ==
    /\ pc = "loop"
    /\ sys_argv[arg_index] = LSTDCXX
    /\ argv' = argv \o LstdcxxReplacement(envoy_cxxflags)
    /\ NextArg
    /\ UNCHANGED <<config, compiler, fs, open_fds, open_files, flagfile_path,
                   in_lines, execs, reads, raised>>

\* line 65: mkstemp creates an empty file under a name not in use and
\* returns its open descriptor
Mkstemp ==
    /\ pc = "loop"
    /\ sys_argv[arg_index] # LSTDCXX
    /\ StartsWith(sys_argv[arg_index], WL_AT)
    /\ \E n \in 1..MaxTmp :
          /\ MkstempPath(n) \notin DOMAIN fs
          /\ flagfile_path' = MkstempPath(n)
          /\ fs' = fs @@ (MkstempPath(n) :> <<>>)
          /\ open_fds' = open_fds \cup {MkstempPath(n)}
    /\ pc' = "sanitize_open"
    /\ UNCHANGED <<config, compiler, argv, arg_index, open_files, in_lines,
                   execs, reads, raised>>

\* line 65: mkstemp raises (no usable name, directory not writable)
MkstempRaise ==
    /\ pc = "loop"
    /\ sys_argv[arg_index] # LSTDCXX
    /\ StartsWith(sys_argv[arg_index], WL_AT)
    /\ Raise("mkstemp")

\* line 69-70: any other argument is copied
CopyArg ==
    /\ pc = "loop"
    /\ sys_argv[arg_index] # LSTDCXX
    /\ ~StartsWith(sys_argv[arg_index], WL_AT)
    /\ argv' = Append(argv, sys_argv[arg_index])
    /\ NextArg
    /\ UNCHANGED <<config, compiler, fs, open_fds, open_files, flagfile_path,
                   in_lines, execs, reads, raised>>

\* line 67, 22: sanitize_flagfile opens the file the argument names
SanitizeOpen ==
    /\ pc = "sanitize_open"
    /\ LET in_path == DropFirst(sys_argv[arg_index], Len(WL_AT)) IN
          /\ in_path \in DOMAIN fs
          /\ reads' = reads \cup {in_path}
          /\ open_files' = open_files \cup {in_path}
          /\ in_lines' = FileLines(fs[in_path])
    /\ pc' = "sanitize_line"
    /\ UNCHANGED <<config, compiler, argv, arg_index, fs, open_fds,
                   flagfile_path, execs, raised>>

\* variant: a failed open falls back to the original argument and goes on
SanitizeOpenRaise_Fallback ==
    /\ pc = "sanitize_open"
    /\ LET in_path == DropFirst(sys_argv[arg_index], Len(WL_AT)) IN
          /\ in_path \notin DOMAIN fs
          /\ reads' = reads \cup {in_path}
    /\ open_fds' = closing_fd(open_fds, flagfile_path)
    /\ argv' = Append(argv, sys_argv[arg_index])
    /\ NextArg
    /\ UNCHANGED <<config, compiler, fs, open_files, flagfile_path, in_lines,
                   execs, raised>>

\* line 22: open raises IOError; closing_fd closes the descriptor on the way out
SanitizeOpenRaise ==
    /\ pc = "sanitize_open"
    /\ LET in_path == DropFirst(sys_argv[arg_index], Len(WL_AT)) IN
          /\ in_path \notin DOMAIN fs
          /\ reads' = reads \cup {in_path}
    /\ open_fds' = closing_fd(open_fds, flagfile_path)
    /\ pc' = "fatal"
    /\ raised' = "open"
    /\ UNCHANGED <<config, compiler, argv, arg_index, fs, open_files,
                   flagfile_path, in_lines, execs>>

\* line 23-27: one line is read and written, replaced or dropped
SanitizeLine ==
    /\ pc = "sanitize_line"
    /\ in_lines # <<>>
    /\ fs' = [fs EXCEPT ![flagfile_path] =
                  @ \o SanitizedLine(Head(in_lines), envoy_cxxflags)]
    /\ in_lines' = Tail(in_lines)
    /\ UNCHANGED <<config, pc, compiler, argv, arg_index, open_fds, open_files,
                   flagfile_path, execs, reads, raised>>

\* line 23-27: the read or the write raises; the with blocks close the input
\* file and the descriptor on the way out
SanitizeLineRaise ==
    /\ pc = "sanitize_line"
    /\ in_lines # <<>>
    /\ open_files' = open_files \ {DropFirst(sys_argv[arg_index], Len(WL_AT))}
    /\ open_fds' = closing_fd(open_fds, flagfile_path)
    /\ pc' = "fatal"
    /\ raised' = "read/write"
    /\ UNCHANGED <<config, compiler, argv, arg_index, fs, flagfile_path,
                   in_lines, execs, reads>>

\* line 22, 66: end of the input file; both with blocks are left
SanitizeEnd ==
    /\ pc = "sanitize_line"
    /\ in_lines = <<>>
    /\ open_files' = open_files \ {DropFirst(sys_argv[arg_index], Len(WL_AT))}
    /\ open_fds' = closing_fd(open_fds, flagfile_path)
    /\ pc' = "append_flagfile"
    /\ UNCHANGED <<config, compiler, argv, arg_index, fs, flagfile_path,
                   in_lines, execs, reads, raised>>

\* line 68: the argument is replaced by a reference to the new file
AppendFlagfile ==
    /\ pc = "append_flagfile"
    /\ argv' = Append(argv, WL_AT \o flagfile_path)
    /\ NextArg
    /\ UNCHANGED <<config, compiler, fs, open_fds, open_files, flagfile_path,
                   in_lines, execs, reads, raised>>

\* line 74-87
AddCompilerOptions ==
    /\ pc = "options"
    /\ argv' = argv \o CompilerOptions(compiler)
    /\ pc' = "execv"
    /\ UNCHANGED <<config, compiler, arg_index, fs, open_fds, open_files,
                   flagfile_path, in_lines, execs, reads, raised>>

\* line 89
ExecCompiler ==
    /\ pc = "execv"
    /\ Execv(compiler, <<compiler>> \o argv)

\* line 89: os.execv raises OSError
ExecCompilerRaise ==
    /\ pc = "execv"
    /\ Raise("execv")

Next ==
    \/ ProbeExec
    \/ ProbeRaise
    \/ SelectCompiler
    \/ BeginTransform
    \/ BeginTransformRaise
    \/ SkipTransform
    \/ RewriteLstdcxx
    \/ Mkstemp
    \/ MkstempRaise
    \/ CopyArg
    \/ SanitizeOpen
    \/ SanitizeOpenRaise
    \/ SanitizeLine
    \/ SanitizeLineRaise
    \/ SanitizeEnd
    \/ AppendFlagfile
    \/ AddCompilerOptions
    \/ ExecCompiler
    \/ ExecCompilerRaise

Spec ==
    Init /\ [][Next]_vars

(***************************************************************************)
(* Vocabulary of the properties, stated on the inputs and on the exec call *)
(* the run ends with.                                                      *)
(***************************************************************************)
\* the run's first four arguments are -E -xc++ - -v
ProbeRun ==
    /\ Len(sys_argv) >= 4
    /\ sys_argv[1] = OPT_E
    /\ sys_argv[2] = OPT_XCXX
    /\ sys_argv[3] = OPT_DASH
    /\ sys_argv[4] = OPT_V

HasArg(token) ==
    \E k \in DOMAIN sys_argv : sys_argv[k] = token

FlagsHaveStdlib ==
    Contains(envoy_cxxflags, STDLIB_LIBCXX)

\* the condition of step 3
Triggered ==
    HasArg(STATIC_LIBSTDCXX) \/ FlagsHaveStdlib

Execd ==
    pc = "exec"

ExecPath ==
    execs[1].path

ExecArgs ==
    execs[1].args

SuffixChoices ==
    {<<>>, <<WNO_MAYBE_UNINITIALIZED>>,
     <<FNO_LIMIT_DEBUG_INFO, WTHREAD_SAFETY, WGNU_CONDITIONAL>>}

\* what shlex.split returns for the configured flag strings
ExpectedSplit(cxxflags) ==
    CASE cxxflags = FLAGS_NONE -> <<>>
      [] cxxflags = STDLIB_LIBCXX -> <<STDLIB_LIBCXX>>
      [] cxxflags = FLAGS_O2G -> << <<"-","O","2">>, <<"-","g">> >>
      [] cxxflags = LSTDCXX -> <<LSTDCXX>>
      [] cxxflags = FLAGS_QUOTED -> << <<"-","D","a"," ","b">> >>

(***************************************************************************)
(* C1: compiler selection.                                                 *)
(***************************************************************************)
\* C1 as stated: in every run that execs, arguments containing
\* -static-libstdc++ mean real_cxx is exec'd, and arguments containing
\* neither -static-libstdc++ nor -stdlib=libc++ mean real_cc is exec'd.
C1_AsStated ==
    Execd =>
        /\ HasArg(STATIC_LIBSTDCXX) => ExecPath = envoy_real_cxx
        /\ (~HasArg(STATIC_LIBSTDCXX) /\ ~HasArg(STDLIB_LIBCXX))
              => ExecPath = envoy_real_cc

\* C1 amended: in every run that execs, arguments containing
\* -static-libstdc++ mean real_cxx is exec'd; arguments containing neither
\* -static-libstdc++ nor -stdlib=libc++ mean real_cc is exec'd provided the
\* first four arguments are not the include-path probe.
C1_CompilerSelection ==
    Execd =>
        /\ HasArg(STATIC_LIBSTDCXX) => ExecPath = envoy_real_cxx
        /\ (~HasArg(STATIC_LIBSTDCXX) /\ ~HasArg(STDLIB_LIBCXX) /\ ~ProbeRun)
              => ExecPath = envoy_real_cc

\* a non-probe run with -static-libstdc++ among several arguments has exec'd
C1_Witness ==
    /\ Execd
    /\ ~ProbeRun
    /\ HasArg(STATIC_LIBSTDCXX)
    /\ sys_argv[1] # STATIC_LIBSTDCXX
    /\ ExecPath = envoy_real_cxx

(***************************************************************************)
(* C2: pass-through when nothing needs rewriting.                          *)
(***************************************************************************)
NothingToRewrite ==
    /\ ~HasArg(STATIC_LIBSTDCXX)
    /\ ~HasArg(STDLIB_LIBCXX)
    /\ ~ProbeRun
    /\ ~FlagsHaveStdlib

\* C2: when the arguments contain neither -static-libstdc++ nor
\* -stdlib=libc++, are not the probe, and cxxflags lacks -stdlib=libc++, no
\* file is read or created at any point of the run, and the exec'd argument
\* list is the compiler path, the input arguments in order, then only
\* toolchain suffix flags.
C2_PassThrough ==
    NothingToRewrite =>
        /\ reads = {}
        /\ fs = InitFS
        /\ open_fds = {}
        /\ Execd => \E suffix \in SuffixChoices :
                       ExecArgs = <<ExecPath>> \o sys_argv \o suffix

\* a pass-through run holding a -Wl,@ argument and a -lstdc++ has exec'd
C2_Witness ==
    /\ NothingToRewrite
    /\ Execd
    /\ HasArg(ARG_WL_A)
    /\ HasArg(LSTDCXX)

(***************************************************************************)
(* C3: the include-path probe wins first.                                  *)
(***************************************************************************)
\* C3: a run whose first four arguments are -E -xc++ - -v does nothing but
\* exec real_cxx with [real_cxx] + arguments + split cxxflags: it never
\* selects a compiler, builds no argument list, reads and creates no file,
\* and execs at most once.
C3_ProbeFirst ==
    ProbeRun =>
        /\ pc \in {"start", "exec", "fatal"}
        /\ compiler = <<>>
        /\ argv = <<>>
        /\ reads = {}
        /\ fs = InitFS
        /\ open_fds = {}
        /\ Len(execs) <= 1
        /\ Execd =>
              /\ ExecPath = envoy_real_cxx
              /\ ExecArgs = <<envoy_real_cxx>> \o sys_argv
                               \o ExpectedSplit(envoy_cxxflags)

\* a probe followed by -static-libstdc++ and a response file has exec'd
C3_Witness ==
    /\ ProbeRun
    /\ Execd
    /\ HasArg(STATIC_LIBSTDCXX)
    /\ HasArg(ARG_WL_A)
    /\ envoy_cxxflags = FLAGS_O2G

(***************************************************************************)
(* The shape of a rewritten argument list: the compiler path, the          *)
(* prepended cxxflags tokens, one token per surviving argument, the        *)
(* toolchain suffix.                                                       *)
(***************************************************************************)
\* some single argument contains the substring -std=c++
SomeArgHasStd ==
    \E k \in DOMAIN sys_argv : Contains(sys_argv[k], STD_CXX)

PrependExpected ==
    Triggered /\ envoy_cxxflags # <<>> /\ SomeArgHasStd

ExpectedPrefix ==
    IF PrependExpected THEN ExpectedSplit(envoy_cxxflags) ELSE <<>>

\* the arguments that leave a token in a rewritten list
Surviving(swap) ==
    LET Keeps(arg) == swap \/ arg # LSTDCXX
    IN  SelectSeq(sys_argv, Keeps)

Count(list, token) ==
    Cardinality({k \in DOMAIN list : list[k] = token})

\* the exec'd list is path + prefix + body + suffix
Framed(prefix, suffix) ==
    /\ Len(ExecArgs) >= 1 + Len(prefix) + Len(suffix)
    /\ SubSeq(ExecArgs, 1, 1 + Len(prefix)) = <<ExecPath>> \o prefix
    /\ SubSeq(ExecArgs, Len(ExecArgs) - Len(suffix) + 1, Len(ExecArgs)) = suffix

BodyOf(prefix, suffix) ==
    SubSeq(ExecArgs, 2 + Len(prefix), Len(ExecArgs) - Len(suffix))

\* token references a file that did not exist when the run started
IsNewFlagfile(token) ==
    /\ StartsWith(token, WL_AT)
    /\ DropFirst(token, Len(WL_AT)) \in DOMAIN fs
    /\ DropFirst(token, Len(WL_AT)) \notin DOMAIN InitFS

\* body is the arguments with every -lstdc++ dropped (or, with swap, replaced
\* by -lc++), every -Wl,@ argument replaced by a new file's token, and every
\* other argument kept, all in the original order
IsRewriteOf(body, swap) ==
    LET kept == Surviving(swap) IN
    /\ Len(body) = Len(kept)
    /\ \A j \in DOMAIN kept :
          IF kept[j] = LSTDCXX THEN body[j] = LCXX
          ELSE IF StartsWith(kept[j], WL_AT) THEN IsNewFlagfile(body[j])
          ELSE body[j] = kept[j]

TransformApplied(swap) ==
    \E suffix \in SuffixChoices :
        /\ Framed(ExpectedPrefix, suffix)
        /\ IsRewriteOf(BodyOf(ExpectedPrefix, suffix), swap)

(***************************************************************************)
(* C4: the effect of -stdlib=libc++.                                       *)
(***************************************************************************)
\* C4 as stated: a non-probe run with -stdlib=libc++ in the arguments or in
\* cxxflags execs real_cxx with the arguments rewritten (every -lstdc++
\* swapped to -lc++, every -Wl,@ file rewritten).
C4_AsStated ==
    (Execd /\ ~ProbeRun /\ (HasArg(STDLIB_LIBCXX) \/ FlagsHaveStdlib)) =>
        /\ ExecPath = envoy_real_cxx
        /\ TransformApplied(TRUE)

\* C4 amended: a non-probe run with -stdlib=libc++ in the arguments execs
\* real_cxx; a non-probe run with -stdlib=libc++ in cxxflags execs with the
\* arguments rewritten (every -lstdc++ swapped to -lc++, every -Wl,@ file
\* rewritten).
C4_StdlibEffects ==
    (Execd /\ ~ProbeRun) =>
        /\ HasArg(STDLIB_LIBCXX) => ExecPath = envoy_real_cxx
        /\ FlagsHaveStdlib => TransformApplied(TRUE)

\* -stdlib=libc++ only in cxxflags: the arguments were rewritten and the C
\* compiler was exec'd
C4_Witness ==
    /\ Execd
    /\ ~ProbeRun
    /\ FlagsHaveStdlib
    /\ sys_argv = <<LSTDCXX, ARG_WL_A>>
    /\ ExecPath = envoy_real_cc
    /\ envoy_real_cc # envoy_real_cxx

(***************************************************************************)
(* C5: -lstdc++ is removed.                                                *)
(***************************************************************************)
\* C5 as stated: when the transformation is triggered, the exec'd argument
\* list holds no token equal to -lstdc++, for every cxxflags value.
C5_AsStated ==
    (Execd /\ ~ProbeRun /\ Triggered) =>
        \A k \in DOMAIN ExecArgs : ExecArgs[k] # LSTDCXX

\* C5 amended: when the transformation is triggered, the exec'd argument
\* list holds no token equal to -lstdc++ after the prepended cxxflags
\* tokens; each -lstdc++ argument is dropped (cxxflags without
\* -stdlib=libc++, and no -lc++ is added) or replaced at its position by one
\* -lc++ (cxxflags with -stdlib=libc++).
C5_LstdcxxRemoved ==
    (Execd /\ ~ProbeRun /\ Triggered) =>
        \E suffix \in SuffixChoices :
            LET body == BodyOf(ExpectedPrefix, suffix) IN
            /\ Framed(ExpectedPrefix, suffix)
            /\ Count(body \o suffix, LSTDCXX) = 0
            /\ IsRewriteOf(body, FlagsHaveStdlib)
            /\ Count(body, LCXX) =
                  Count(sys_argv, LCXX)
                    + (IF FlagsHaveStdlib THEN Count(sys_argv, LSTDCXX) ELSE 0)

\* -lstdc++ between other arguments was dropped from a rewritten list
C5_Witness ==
    /\ Execd
    /\ ~ProbeRun
    /\ ~FlagsHaveStdlib
    /\ Len(sys_argv) = 5
    /\ sys_argv[4] = LSTDCXX
    /\ sys_argv[5] = STATIC_LIBSTDCXX
    /\ Count(ExecArgs, LSTDCXX) = 0

(***************************************************************************)
(* C6: the response-file rewrite.                                          *)
(***************************************************************************)
\* the rewrite rule for one line
ExpectedLine(line, swap) ==
    IF line = LSTDCXX \o <<"\n">>
    THEN IF swap THEN LCXX \o <<"\n">> ELSE <<>>
    ELSE line

\* the rewritten file: the original's lines in order, each by the rule
ExpectedContent(content, swap) ==
    LET lines == FileLines(content)
    IN  Concat([k \in DOMAIN lines |-> ExpectedLine(lines[k], swap)])

EXPECT_A_DROP ==
    <<"-","l","a","\n","-","l","b","\n">>
EXPECT_A_SWAP ==
    <<"-","l","a","\n","-","l","c","+","+","\n","-","l","b","\n">>
EXPECT_B_DROP ==
    <<"-","l","s","t","d","c","+","+","\r","\n","-","l","s","t","d","c","+","+">>
EXPECT_B_SWAP ==
    <<"-","l","s","t","d","c","+","+","\r","\n","-","l","c","+","+","\n","-","l","s","t","d","c","+","+">>

\* the rewritten content of the two response files, written out
ExpectedBytes(path, swap) ==
    CASE path = PATH_A -> IF swap THEN EXPECT_A_SWAP ELSE EXPECT_A_DROP
      [] path = PATH_B -> IF swap THEN EXPECT_B_SWAP ELSE EXPECT_B_DROP

EndsWith(s, tail) ==
    /\ Len(s) >= Len(tail)
    /\ SubSeq(s, Len(s) - Len(tail) + 1, Len(s)) = tail

\* path names a file directly in the current working directory
InCwd(path) ==
    /\ StartsWith(path, <<".", "/">>)
    /\ \A k \in 3..Len(path) : path[k] # "/"

\* new is the rewritten copy of the response file orig
IsRewrittenCopy(new, orig, swap) ==
    /\ orig \in DOMAIN InitFS
    /\ new \in DOMAIN fs
    /\ new \notin DOMAIN InitFS
    /\ InCwd(new)
    /\ EndsWith(new, LINKER_PARAMS)
    /\ fs[new] = ExpectedContent(InitFS[orig], swap)
    /\ fs[new] = ExpectedBytes(orig, swap)

\* C6: the files present at the start are never modified; and when a
\* triggered run execs, each -Wl,@path argument has become, at its position,
\* -Wl,@newpath for a new file newpath in the working directory with suffix
\* .linker-params, one new file per such argument, holding the original's
\* lines in order with each "-lstdc++\n" line dropped (or, when cxxflags
\* holds -stdlib=libc++, replaced by "-lc++\n") and every other line copied.
C6_ResponseFileRewrite ==
    /\ \A p \in DOMAIN InitFS : p \in DOMAIN fs /\ fs[p] = InitFS[p]
    /\ (Execd /\ ~ProbeRun /\ Triggered) =>
          \E suffix \in SuffixChoices :
              LET body == BodyOf(ExpectedPrefix, suffix)
                  kept == Surviving(FlagsHaveStdlib)
                  refs == {j \in DOMAIN kept : StartsWith(kept[j], WL_AT)}
              IN  /\ Framed(ExpectedPrefix, suffix)
                  /\ Len(body) = Len(kept)
                  /\ \A j \in refs :
                        /\ StartsWith(body[j], WL_AT)
                        /\ IsRewrittenCopy(DropFirst(body[j], Len(WL_AT)),
                                           DropFirst(kept[j], Len(WL_AT)),
                                           FlagsHaveStdlib)
                  /\ \A i, j \in refs : i # j => body[i] # body[j]
                  /\ Cardinality(DOMAIN fs \ DOMAIN InitFS) = Cardinality(refs)

\* two response files were rewritten with the swap to -lc++
C6_Witness ==
    /\ Execd
    /\ FlagsHaveStdlib
    /\ sys_argv = <<ARG_WL_A, ARG_WL_B>>
    /\ Cardinality(DOMAIN fs) = 4

(***************************************************************************)
(* C7: the toolchain suffix.                                               *)
(***************************************************************************)
\* the number of tokens of the exec'd list before the suffix and after the path
ExpectedBodyLen ==
    Len(ExpectedPrefix)
      + (IF Triggered THEN Len(Surviving(FlagsHaveStdlib)) ELSE Len(sys_argv))

\* the exec'd list ends with suffix, added once to an otherwise complete list
AppendedExactly(suffix) ==
    /\ Len(ExecArgs) = 1 + ExpectedBodyLen + Len(suffix)
    /\ SubSeq(ExecArgs, Len(ExecArgs) - Len(suffix) + 1, Len(ExecArgs)) = suffix

\* C7 as stated: a selected path containing "clang" gets exactly the three
\* clang flags, a selected path containing "gcc" or "g++" gets exactly
\* -Wno-maybe-uninitialized, any other path gets nothing.
C7_AsStated ==
    (Execd /\ ~ProbeRun) =>
        /\ Contains(ExecPath, CLANG) =>
              AppendedExactly(<<FNO_LIMIT_DEBUG_INFO, WTHREAD_SAFETY,
                                WGNU_CONDITIONAL>>)
        /\ (Contains(ExecPath, GCC) \/ Contains(ExecPath, GXX)) =>
              AppendedExactly(<<WNO_MAYBE_UNINITIALIZED>>)
        /\ (~Contains(ExecPath, CLANG) /\ ~Contains(ExecPath, GCC)
              /\ ~Contains(ExecPath, GXX)) => AppendedExactly(<<>>)

\* C7 amended: a selected path containing "clang" gets exactly the three
\* clang flags, once each and in order; a selected path containing "gcc" or
\* "g++" and not "clang" gets exactly -Wno-maybe-uninitialized, once; any
\* other path gets nothing.
C7_ToolchainSuffix ==
    (Execd /\ ~ProbeRun) =>
        /\ Contains(ExecPath, CLANG) =>
              AppendedExactly(<<FNO_LIMIT_DEBUG_INFO, WTHREAD_SAFETY,
                                WGNU_CONDITIONAL>>)
        /\ (~Contains(ExecPath, CLANG)
              /\ (Contains(ExecPath, GCC) \/ Contains(ExecPath, GXX))) =>
              AppendedExactly(<<WNO_MAYBE_UNINITIALIZED>>)
        /\ (~Contains(ExecPath, CLANG) /\ ~Contains(ExecPath, GCC)
              /\ ~Contains(ExecPath, GXX)) => AppendedExactly(<<>>)

\* a compiler path holding both "clang" and "gcc" was exec'd
C7_Witness ==
    /\ Execd
    /\ ~ProbeRun
    /\ Contains(ExecPath, CLANG)
    /\ Contains(ExecPath, GCC)
    /\ Len(sys_argv) = 2

(***************************************************************************)
(* C8: the cxxflags prepend.                                               *)
(***************************************************************************)
\* C8: when a non-probe run execs, the exec'd list is the compiler path, then
\* the split cxxflags exactly when the transformation is triggered, cxxflags
\* is non-empty and some single argument contains -std=c++, then one token
\* per surviving argument, then the suffix; in every other case no token
\* stands between the compiler path and the first argument's token.
C8_CxxflagsPrepend ==
    (Execd /\ ~ProbeRun) =>
        LET front == IF PrependExpected
                     THEN ExpectedSplit(envoy_cxxflags)
                     ELSE <<>>
        IN  \E suffix \in SuffixChoices :
                /\ Framed(front, suffix)
                /\ IF Triggered
                   THEN IsRewriteOf(BodyOf(front, suffix), FlagsHaveStdlib)
                   ELSE BodyOf(front, suffix) = sys_argv

\* two cxxflags tokens were placed before the arguments
C8_Witness ==
    /\ Execd
    /\ ~ProbeRun
    /\ envoy_cxxflags = FLAGS_O2G
    /\ sys_argv = <<ARG_STD11, STATIC_LIBSTDCXX>>
    /\ Len(ExecArgs) >= 5
    /\ ExecArgs[4] = ARG_STD11

(***************************************************************************)
(* C9: descriptor discipline.                                              *)
(***************************************************************************)
Terminal ==
    pc \in {"exec", "fatal"}

\* C9: no mkstemp descriptor is open once its -Wl,@newpath token is in the
\* argument list or about to be added, at most one is open at a time, and
\* none is open when the run has ended, by exec or by a fatal error.
C9_DescriptorDiscipline ==
    /\ Terminal => open_fds = {}
    /\ pc \in {"append_flagfile", "options", "execv"} => open_fds = {}
    /\ \A p \in open_fds : \A k \in DOMAIN argv : argv[k] # WL_AT \o p
    /\ Cardinality(open_fds) <= 1

\* a write failed after part of the new file had been written
C9_Witness ==
    /\ pc = "fatal"
    /\ raised = "read/write"
    /\ flagfile_path \in DOMAIN fs
    /\ fs[flagfile_path] # <<>>
    /\ in_lines # <<>>

(***************************************************************************)
(* C10: fatal errors precede exec.                                         *)
(***************************************************************************)
\* the arguments before position n that leave a token in a rewritten list
SurvivingBefore(n) ==
    Cardinality({k \in 1..(n - 1) :
                    FlagsHaveStdlib \/ sys_argv[k] # LSTDCXX})

\* a measure of the work a run has left: 0 in a terminal state
StepsPerArg ==
    5 + Len(FILE_A) + Len(FILE_B)

Rank ==
    LET left == (Len(sys_argv) - arg_index + 1) * StepsPerArg IN
    CASE pc = "start" -> (Len(sys_argv) + 1) * StepsPerArg + 2
      [] pc = "transform" -> (Len(sys_argv) + 1) * StepsPerArg + 1
      [] pc = "loop" -> left
      [] pc = "sanitize_open" -> left - 1
      [] pc = "sanitize_line" -> left - StepsPerArg + 4 + Len(in_lines)
      [] pc = "append_flagfile" -> left - StepsPerArg + 3
      [] pc = "options" -> 2
      [] pc = "execv" -> 1
      [] OTHER -> 0

\* what C10 says of the state a step leads to
FatalBeforeExec ==
    /\ Len(execs) <= 1
    /\ Execd <=> execs # <<>>
    /\ pc = "fatal" <=> raised # ""
    /\ raised \in {"mkstemp", "open", "read/write"} =>
          /\ arg_index \in DOMAIN sys_argv
          /\ StartsWith(sys_argv[arg_index], WL_AT)
          /\ Len(argv) = Len(ExpectedPrefix) + SurvivingBefore(arg_index)
    /\ (\E p \in reads : p \notin DOMAIN InitFS) => pc = "fatal"

\* C10: no step starts from an exec'd or fatal state (nothing is retried or
\* recovered), every step brings the run closer to its end, and after every
\* step: the run has exec'd at most once and is in its exec state exactly
\* when it has exec'd; it is in its fatal state exactly when a call has
\* raised; after a failure of mkstemp, open, read or write the list holds no
\* token for the failing -Wl,@ argument or for any later argument; and a
\* run in which an open failed is in its fatal state.
C10_FatalBeforeExec ==
    [][/\ ~Terminal
       /\ Rank' < Rank
       /\ Rank' >= 0
       /\ Terminal' <=> Rank' = 0
       /\ FatalBeforeExec']_vars

\* opening a response file failed with arguments still to come
C10_Witness ==
    /\ pc = "fatal"
    /\ raised = "open"
    /\ execs = <<>>
    /\ arg_index < Len(sys_argv)

=============================================================================
